---- MODULE Spec2Model ----
(***************************************************************************)
(* Model of the dataset collector service (src/app.py): a Flask            *)
(* application that stores an uploaded video and its JSON companion under  *)
(* timestamp-prefixed names in two directories and lists, bundles and      *)
(* deletes them.  Requests are served concurrently by worker threads; each *)
(* worker runs one handler at a time.  A handler is a sequence of steps,   *)
(* one for each point where another request can change what it sees: a     *)
(* directory scan, an existence test, a write, a removal, a turn of a      *)
(* bundling loop.                                                          *)
(*                                                                         *)
(* A file name is a sequence of one-character strings, so that the string  *)
(* operations of the handlers (re.sub, str.endswith, str.lower,            *)
(* os.path.splitext, str.split, str.join, the "in" substring test and      *)
(* strftime) are computed as Python computes them.                         *)
(***************************************************************************)
EXTENDS Integers, Sequences, FiniteSets, TLC

\* ------------------------------------------------------------- bounds
\* Uploads that pass validation, over a whole behaviour.
MaxUploads == 2
\* Seconds the wall clock advances, over a whole behaviour.
MaxTick == MaxUploads - 1

\* Worker threads serving requests concurrently.
Procs == {"w1", "w2"}

\* ------------------------------------------------------------- strings
Upper == <<"A","B","C","D","E","F","G","H","I","J","K","L","M",
           "N","O","P","Q","R","S","T","U","V","W","X","Y","Z">>
Lower == <<"a","b","c","d","e","f","g","h","i","j","k","l","m",
           "n","o","p","q","r","s","t","u","v","w","x","y","z">>
DigitChar == <<"0","1","2","3","4","5","6","7","8","9">>

\* str.lower()
lower(s) ==
    [i \in 1..Len(s) |->
        IF \E k \in 1..Len(Upper) : Upper[k] = s[i]
        THEN Lower[CHOOSE k \in 1..Len(Upper) : Upper[k] = s[i]]
        ELSE s[i]]

\* str.endswith(suffix)
endswith(s, suffix) ==
    /\ Len(suffix) <= Len(s)
    /\ SubSeq(s, Len(s) - Len(suffix) + 1, Len(s)) = suffix

\* the substring test "sub in s"
contains(s, sub) ==
    \E i \in 0..(Len(s) - Len(sub)) : SubSeq(s, i + 1, i + Len(sub)) = sub

\* str.rfind(c), 1-based; 0 when c does not occur
rfind(s, c) ==
    IF \E i \in 1..Len(s) : s[i] = c
    THEN CHOOSE i \in 1..Len(s) : s[i] = c /\ \A j \in (i + 1)..Len(s) : s[j] # c
    ELSE 0

\* os.path.splitext(p) on POSIX: the extension starts at the last dot that
\* follows the last "/" and is preceded, in that component, by a character
\* that is not a dot.  Returns <<root, ext>>.
splitext(p) ==
    LET sepIndex == rfind(p, "/")
        dotIndex == rfind(p, ".")
    IN  IF /\ dotIndex > sepIndex
           /\ \E i \in (sepIndex + 1)..(dotIndex - 1) : p[i] # "."
        THEN <<SubSeq(p, 1, dotIndex - 1), SubSeq(p, dotIndex, Len(p))>>
        ELSE <<p, <<>>>>

\* str.split(sep) for a one-character separator: a sequence of strings
RECURSIVE split(_, _)
split(s, sep) ==
    IF \A i \in 1..Len(s) : s[i] # sep
    THEN <<s>>
    ELSE LET k == CHOOSE i \in 1..Len(s) :
                      s[i] = sep /\ \A j \in 1..(i - 1) : s[j] # sep
         IN  <<SubSeq(s, 1, k - 1)>> \o split(SubSeq(s, k + 1, Len(s)), sep)

\* sep.join(parts)
RECURSIVE join(_, _)
join(sep, parts) ==
    IF parts = <<>> THEN <<>>
    ELSE IF Len(parts) = 1 THEN parts[1]
    ELSE parts[1] \o sep \o join(sep, Tail(parts))

\* the slice parts[:n]
prefix(parts, n) == SubSeq(parts, 1, IF Len(parts) < n THEN Len(parts) ELSE n)

\* os.path.join(a, b) on POSIX: an absolute b replaces a.
path_join(a, b) ==
    IF b # <<>> /\ b[1] = "/" THEN b
    ELSE IF a = <<>> \/ a[Len(a)] = "/" THEN a \o b
    ELSE a \o <<"/">> \o b

\* os.environ.get("HOME", "/tmp"): some absolute directory.
HOME == <<"/", "h">>
UPLOAD_FOLDER == path_join(HOME, <<"u">>)
VIDEO_FOLDER == path_join(UPLOAD_FOLDER, <<"v">>)
JSON_FOLDER == path_join(UPLOAD_FOLDER, <<"j">>)

\* ------------------------------------------------------------- sanitizer
\* The character class [<>:"/\\|?*\x00-\x1F]; the control characters are
\* represented by TAB, LF and CR.
InvalidChars == {"<", ">", ":", "\"", "/", "\\", "|", "?", "*", "\t", "\n", "\r"}

\* re.sub with count=1: only the first character of the class is replaced.
sanitize_first_only(filename) ==
    LET hits == {i \in 1..Len(filename) : filename[i] \in InvalidChars}
    IN  [i \in 1..Len(filename) |->
            IF i \in hits /\ \A j \in hits : i <= j THEN "_" ELSE filename[i]]

\* re.sub(class, "_", filename): every character of the class becomes "_".
sanitize_filename(filename) ==
    [i \in 1..Len(filename) |->
        IF filename[i] \in InvalidChars THEN "_" ELSE filename[i]]

\* ------------------------------------------------------------- clock
\* datetime.now(): the wall clock, second resolution, as a record.  The
\* model's clock starts one second before a month boundary.
Epoch == [Y |-> 2024, m |-> 1, d |-> 31, H |-> 23, M |-> 59, S |-> 58]

IsLeap(y) == (y % 4 = 0 /\ y % 100 # 0) \/ y % 400 = 0
DaysIn(y, m) ==
    IF m = 2 THEN (IF IsLeap(y) THEN 29 ELSE 28)
    ELSE IF m \in {4, 6, 9, 11} THEN 30 ELSE 31

AddSecond(t) ==
    IF t.S < 59 THEN [t EXCEPT !.S = t.S + 1]
    ELSE IF t.M < 59 THEN [t EXCEPT !.S = 0, !.M = t.M + 1]
    ELSE IF t.H < 23 THEN [t EXCEPT !.S = 0, !.M = 0, !.H = t.H + 1]
    ELSE IF t.d < DaysIn(t.Y, t.m)
         THEN [t EXCEPT !.S = 0, !.M = 0, !.H = 0, !.d = t.d + 1]
    ELSE IF t.m < 12
         THEN [t EXCEPT !.S = 0, !.M = 0, !.H = 0, !.d = 1, !.m = t.m + 1]
    ELSE [t EXCEPT !.S = 0, !.M = 0, !.H = 0, !.d = 1, !.m = 1, !.Y = t.Y + 1]

RECURSIVE TimeAt(_)
TimeAt(n) == IF n = 0 THEN Epoch ELSE AddSecond(TimeAt(n - 1))

D2(n) == <<DigitChar[((n \div 10) % 10) + 1], DigitChar[(n % 10) + 1]>>
D4(n) == D2(n \div 100) \o D2(n % 100)

\* strftime("%Y-%m-%d_%H-%M-%S")
strftime(t) ==
    D4(t.Y) \o <<"-">> \o D2(t.m) \o <<"-">> \o D2(t.d) \o <<"_">> \o
    D2(t.H) \o <<"-">> \o D2(t.M) \o <<"-">> \o D2(t.S)

\* ------------------------------------------------------------- requests
MP4 == <<".", "m", "p", "4">>
JSON == <<".", "j", "s", "o", "n">>

\* Client-supplied file names.
VideoName == <<"v">> \o MP4
UpperVideoName == <<"V", ".", "M", "P", "4">>
DataNames == { <<"v">> \o JSON, <<"d">> \o JSON }

\* Data documents: an object with both arrays, an object without them, a
\* document that is valid JSON but no object, and text that is not JSON.
Samples == <<1>>
ObjectFull == [kind |-> "object",
               members |-> [k \in {"gyroscopeData", "accelerometerData"} |-> Samples]]
ObjectEmpty == [kind |-> "object", members |-> [k \in {} |-> Samples]]
ArrayDoc == [kind |-> "array"]
NotJson == [kind |-> "invalid"]

Absent == [present |-> FALSE]
Part(name, mime) == [present |-> TRUE, filename |-> name, mimetype |-> mime]
Request(video, json, doc) == [video |-> video, json |-> json, doc |-> doc]

\* request.files of upload requests, with the document the data part holds.
GoodVideo == Part(VideoName, "video/mp4")
GoodJson(n) == Part(n, "application/json")
BadRequests ==
    {Request(Absent, GoodJson(<<"d">> \o JSON), ObjectFull),
     Request(GoodVideo, Absent, ObjectFull),
     Request(Part(<<>>, "video/mp4"), GoodJson(<<"d">> \o JSON), ObjectFull),
     Request(GoodVideo, Part(<<>>, "application/json"), ObjectFull),
     Request(Part(VideoName, "video/quicktime"), GoodJson(<<"d">> \o JSON), ObjectFull),
     Request(GoodVideo, Part(<<"d">> \o JSON, "text/plain"), ObjectFull)}
\* Well-formed datasets under two data file names.
GoodRequests == {Request(GoodVideo, GoodJson(n), ObjectFull) : n \in DataNames}
\* The same, a video with an upper-case extension, and the malformed requests.
Requests ==
    GoodRequests
    \cup {Request(Part(UpperVideoName, "video/mp4"), GoodJson(<<"d">> \o JSON), ObjectFull)}
    \cup BadRequests
\* Names that hold path separators and parent-directory segments.
TraversalVideoNames ==
    { <<".", ".", "\\">> \o VideoName,
      <<"a", "/", ".", ".", "/", ".", ".", "/", "v">>,
      <<".", ".">> }
TraversalDataNames ==
    { <<".", ".", "/", ".", ".", "/", "d">> \o JSON,
      <<"/", "d">> \o JSON }
TraversalRequests ==
    {Request(Part(n, "video/mp4"), GoodJson(<<"d">> \o JSON), ObjectFull) :
        n \in TraversalVideoNames}
    \cup {Request(GoodVideo, GoodJson(n), ObjectFull) : n \in TraversalDataNames}
\* A dataset whose data file is named after its video, a video with an
\* upper-case extension, and a request with no video part.
BundleRequests ==
    {Request(GoodVideo, GoodJson(<<"v">> \o JSON), ObjectFull),
     Request(Part(UpperVideoName, "video/mp4"), GoodJson(<<"d">> \o JSON), ObjectFull),
     Request(Absent, GoodJson(<<"d">> \o JSON), ObjectFull)}
\* One data file name, every kind of document.
DocRequests ==
    {Request(GoodVideo, GoodJson(<<"d">> \o JSON), d) :
        d \in {ObjectFull, ObjectEmpty, ArrayDoc, NotJson}}

\* Validate without the two content-type checks.
ValidateNoMimetype(r) ==
    IF ~r.video.present \/ ~r.json.present THEN "Video and JSON data are required"
    ELSE IF r.video.filename = <<>> THEN "No video file uploaded"
    ELSE IF r.json.filename = <<>> THEN "No JSON file uploaded"
    ELSE ""

\* The checks that open upload_file, in order; "" when the request passes.
Validate(r) ==
    IF ~r.video.present \/ ~r.json.present THEN "Video and JSON data are required"
    ELSE IF r.video.filename = <<>> THEN "No video file uploaded"
    ELSE IF r.json.filename = <<>> THEN "No JSON file uploaded"
    ELSE IF r.video.mimetype # "video/mp4" THEN "Video must be an MP4 file"
    ELSE IF r.json.mimetype # "application/json" THEN "JSON data must be a .json file"
    ELSE ""

\* The name upload_file stores the video under.
VideoFilename(timestamp, filename) ==
    LET s == sanitize_filename(filename)
        v == IF ~endswith(lower(s), MP4) THEN splitext(s)[1] \o MP4 ELSE s
    IN  timestamp \o <<"-">> \o v

\* The name upload_file stores the data file under.
JsonFilename(timestamp, filename) ==
    timestamp \o <<"-">> \o sanitize_filename(filename)

\* json.load: the parsed document, or a JSONDecodeError.
json_load(doc) ==
    IF doc.kind = "invalid" THEN [ok |-> FALSE, error |-> "JSONDecodeError"]
    ELSE [ok |-> TRUE, value |-> doc]

\* json_data.get(key, []): dict.get on an object; any other JSON value has no
\* method get and raises AttributeError.
Get(value, key) ==
    IF value.kind # "object" THEN [ok |-> FALSE, error |-> "AttributeError"]
    ELSE [ok |-> TRUE,
          value |-> IF key \in DOMAIN value.members THEN value.members[key] ELSE <<>>]

\* ------------------------------------------------------------- filesystem
EmptyDir == [n \in {} |-> <<>>]
WriteFile(dir, name, bytes) ==
    [n \in DOMAIN dir \cup {name} |-> IF n = name THEN bytes ELSE dir[n]]
RemoveFile(dir, name) == [n \in DOMAIN dir \ {name} |-> dir[n]]
exists(dir, name) == name \in DOMAIN dir

\* ------------------------------------------------------------- state
VARIABLES
    videoDir,   \* VIDEO_FOLDER: entry name -> bytes
    jsonDir,    \* JSON_FOLDER: entry name -> bytes
    clock,      \* seconds elapsed on the wall clock
    uploads,    \* uploads that passed validation so far
    pc,         \* per worker: the handler step it is at, "idle" between requests
    loc,        \* per worker: the local variables of the running handler
    resp,       \* the response the last step returned, NoResp if it returned none
    stable,     \* per running worker: no other worker changed a directory meanwhile
    created,    \* the uploads answered 200 since an entry was last removed
    lastDel,    \* the directories as an undisturbed delete_all left them, while
                \* nothing has changed them since
    tempZip     \* the file "temp.zip" of the working directory

vars == <<videoDir, jsonDir, clock, uploads, pc, loc, resp, stable, created, lastDel,
          tempZip>>

NoLoc == [op |-> "none"]
NoResp == [op |-> "none", status |-> 0]
None == [set |-> FALSE]

\* A path under which there is no file.
NoFile == [exists |-> FALSE]

Dirs == [video |-> videoDir, json |-> jsonDir]

Init ==
    /\ videoDir = EmptyDir
    /\ jsonDir = EmptyDir
    /\ clock = 0
    /\ uploads = 0
    /\ pc = [p \in Procs |-> "idle"]
    /\ loc = [p \in Procs |-> NoLoc]
    /\ resp = NoResp
    /\ stable = [p \in Procs |-> TRUE]
    /\ created = {}
    /\ lastDel = None
    /\ tempZip = NoFile

\* A worker takes up a request.
Begin(p, step, locals) ==
    /\ pc[p] = "idle"
    /\ pc' = [pc EXCEPT ![p] = step]
    /\ loc' = [loc EXCEPT ![p] = locals]
    /\ resp' = NoResp

\* A worker returns a response.
Finish(p, response) ==
    /\ pc' = [pc EXCEPT ![p] = "idle"]
    /\ loc' = [loc EXCEPT ![p] = NoLoc]
    /\ resp' = response

\* Worker p changed a directory: every other running handler is disturbed.
Disturb(p) == [q \in Procs |-> IF q # p /\ pc[q] # "idle" THEN FALSE ELSE stable[q]]
\* Worker p is idle again.
Settle(p) == [stable EXCEPT ![p] = TRUE]

\* The wall clock advances.
Tick ==
    /\ clock < MaxTick
    /\ clock' = clock + 1
    /\ resp' = NoResp
    /\ UNCHANGED <<videoDir, jsonDir, tempZip, uploads, pc, loc, stable, created, lastDel>>

\* ------------------------------------------------------------- upload_file
\* except Exception as e: the handlers answer 500 with the cause.
Error500(op, cause, call) ==
    [op |-> op, status |-> 500, message |-> <<"An error occurred: ", cause>>, call |-> call]

\* A request that fails validation: 400, before any filesystem call.
UploadInvalid(p, R) ==
    \E r \in R :
        /\ pc[p] = "idle"
        /\ Validate(r) # ""
        /\ Finish(p, [op |-> "upload", status |-> 400, message |-> Validate(r),
                      input |-> r, before |-> Dirs])
        /\ UNCHANGED <<videoDir, jsonDir, clock, tempZip, uploads, stable, created, lastDel>>

\* A request that passes validation: the timestamp and both names are fixed.
\* The bytes a call uploads are tagged with the call's serial number.
UploadAccept(p, R) ==
    \E r \in R :
        /\ Validate(r) = ""
        /\ uploads < MaxUploads
        /\ LET timestamp == strftime(TimeAt(clock))
           IN  Begin(p, "save_video",
                     [op |-> "upload", id |-> uploads + 1, input |-> r,
                      with |-> {loc[q].id : q \in {w \in Procs : loc[w].op = "upload"}},
                      before |-> Dirs,
                      timestamp |-> timestamp,
                      video_filename |-> VideoFilename(timestamp, r.video.filename),
                      json_filename |-> JsonFilename(timestamp, r.json.filename),
                      video_path |-> path_join(VIDEO_FOLDER,
                                               VideoFilename(timestamp, r.video.filename)),
                      json_path |-> path_join(JSON_FOLDER,
                                              JsonFilename(timestamp, r.json.filename))])
        /\ uploads' = uploads + 1
        /\ UNCHANGED <<videoDir, jsonDir, clock, tempZip, stable, created, lastDel>>

\* video.save(video_path): creates or truncates the entry.
UploadSaveVideo(p) ==
    /\ pc[p] = "save_video"
    /\ videoDir' = WriteFile(videoDir, loc[p].video_filename, [id |-> loc[p].id])
    /\ pc' = [pc EXCEPT ![p] = "save_json"]
    /\ stable' = Disturb(p)
    /\ lastDel' = None
    /\ resp' = NoResp
    /\ UNCHANGED <<jsonDir, clock, tempZip, uploads, loc, created>>

\* The response of a handler whose exception was raised by the given call.
Raised(response, site) ==
    [k \in DOMAIN response \cup {"raised_by"} |->
        IF k = "raised_by" THEN site ELSE response[k]]

\* video.save(video_path) fails with OSError, 500: either on open (the
\* directory is gone or not writable), and no entry is written, or while the
\* bytes are copied (the disk is full), and the entry is left truncated.
UploadSaveVideoFails(p) ==
    \E truncated \in BOOLEAN :
        /\ pc[p] = "save_video"
        /\ videoDir' = IF truncated
                       THEN WriteFile(videoDir, loc[p].video_filename,
                                      [id |-> loc[p].id, truncated |-> TRUE])
                       ELSE videoDir
        /\ Finish(p, Raised(Error500("upload", "OSError", loc[p]), "video.save"))
        /\ stable' = IF truncated THEN [Disturb(p) EXCEPT ![p] = TRUE] ELSE Settle(p)
        /\ lastDel' = IF truncated THEN None ELSE lastDel
        /\ UNCHANGED <<jsonDir, clock, tempZip, uploads, created>>

\* json_data_file.save(json_path): creates or truncates the entry.
UploadSaveJson(p) ==
    /\ pc[p] = "save_json"
    /\ jsonDir' = WriteFile(jsonDir, loc[p].json_filename,
                            [id |-> loc[p].id, doc |-> loc[p].input.doc])
    /\ pc' = [pc EXCEPT ![p] = "read_json"]
    /\ stable' = Disturb(p)
    /\ lastDel' = None
    /\ resp' = NoResp
    /\ UNCHANGED <<videoDir, clock, tempZip, uploads, loc, created>>

\* The bytes a failed copy leaves in a data entry: not a JSON document.
Truncated(id) == [id |-> id, doc |-> NotJson]

\* A handler that removes the video when the data write fails.
UploadSaveJsonFailsRollsBack(p) ==
    /\ pc[p] = "save_json"
    /\ videoDir' = RemoveFile(videoDir, loc[p].video_filename)
    /\ Finish(p, Raised(Error500("upload", "OSError", loc[p]), "json_data_file.save"))
    /\ stable' = [Disturb(p) EXCEPT ![p] = TRUE]
    /\ lastDel' = None
    /\ UNCHANGED <<jsonDir, clock, tempZip, uploads, created>>

\* json_data_file.save(json_path) fails with OSError, 500: on open, and no
\* entry is written, or while the bytes are copied, and the entry is left
\* truncated.  The except clause removes nothing: the video written before
\* stays.
UploadSaveJsonFails(p) ==
    \E truncated \in BOOLEAN :
        /\ pc[p] = "save_json"
        /\ jsonDir' = IF truncated
                      THEN WriteFile(jsonDir, loc[p].json_filename, Truncated(loc[p].id))
                      ELSE jsonDir
        /\ Finish(p, Raised(Error500("upload", "OSError", loc[p]), "json_data_file.save"))
        /\ stable' = IF truncated THEN [Disturb(p) EXCEPT ![p] = TRUE] ELSE Settle(p)
        /\ lastDel' = IF truncated THEN None ELSE lastDel
        /\ UNCHANGED <<videoDir, clock, tempZip, uploads, created>>

\* open(json_path), json.load and the response; every exception is a 500.
UploadResponse(call, dir) ==
    IF ~exists(dir, call.json_filename)
    THEN Error500("upload", "FileNotFoundError", call)
    ELSE LET json_data == json_load(dir[call.json_filename].doc)
         IN  IF ~json_data.ok THEN Error500("upload", json_data.error, call)
             ELSE LET gyro == Get(json_data.value, "gyroscopeData")
                      accel == Get(json_data.value, "accelerometerData")
                  IN  IF ~gyro.ok THEN Error500("upload", gyro.error, call)
                      ELSE IF ~accel.ok THEN Error500("upload", accel.error, call)
                      ELSE [op |-> "upload", status |-> 200,
                            body |-> [video |-> <<"videos", "/">> \o call.video_filename,
                                      gyroscopeData |-> gyro.value,
                                      accelerometerData |-> accel.value],
                            call |-> call]

\* What the log of answered uploads keeps of a call.
Created(call) ==
    [id |-> call.id, timestamp |-> call.timestamp,
     video_filename |-> call.video_filename, json_filename |-> call.json_filename]

UploadReadJson(p) ==
    /\ pc[p] = "read_json"
    /\ Finish(p, UploadResponse(loc[p], jsonDir))
    /\ created' = IF resp'.status = 200 THEN created \cup {Created(loc[p])} ELSE created
    /\ stable' = Settle(p)
    /\ UNCHANGED <<videoDir, jsonDir, clock, tempZip, uploads, lastDel>>

\* ------------------------------------------------------------- listdir
\* os.listdir(dir): the entry names, in an order the filesystem chooses.
listdir(dir) ==
    LET n == Cardinality(DOMAIN dir)
    IN  {s \in [1..n -> DOMAIN dir] : \A i, j \in 1..n : i # j => s[i] # s[j]}

\* ------------------------------------------------------------- list_datasets
ListBody(listing) ==
    LET mp4s == SelectSeq(listing, LAMBDA filename : endswith(filename, MP4))
    IN  [i \in 1..Len(mp4s) |-> splitext(mp4s[i])[1]]

ListDatasets(p) ==
    \E listing \in listdir(videoDir) :
        /\ pc[p] = "idle"
        /\ Finish(p, [op |-> "list", status |-> 200, body |-> ListBody(listing)])
        /\ UNCHANGED <<videoDir, jsonDir, clock, tempZip, uploads, stable, created, lastDel>>

\* ------------------------------------------------------------- delete_all
\* for filename in os.listdir(VIDEO_FOLDER): the directory is read once; the
\* loop then takes the names in the listing's order, which is any order.
DeleteBegin(p) ==
    /\ Begin(p, "del_next",
             [op |-> "delete_all", todo |-> DOMAIN videoDir, filename |-> <<>>,
              previous |-> lastDel, removed |-> {}, before |-> Dirs])
    /\ UNCHANGED <<videoDir, jsonDir, clock, tempZip, uploads, stable, created, lastDel>>

\* Worker p removed an entry.
Removed(p, path) ==
    /\ loc' = [loc EXCEPT ![p].removed = @ \cup {path}]
    /\ stable' = Disturb(p)
    /\ created' = {}
    /\ lastDel' = None

\* DeleteNext with the return statement inside the loop: the listing is
\* dropped after its first name.
DeleteNextReturnsEarly(p) ==
    /\ pc[p] = "del_next"
    /\ \E filename \in loc[p].todo :
        /\ loc' = [loc EXCEPT ![p].todo = {}, ![p].filename = filename]
        /\ pc' = [pc EXCEPT ![p] =
                     IF ~endswith(filename, MP4) THEN "del_next"
                     ELSE IF exists(videoDir, filename) THEN "del_rm_video"
                     ELSE "del_exists_json"]
    /\ resp' = NoResp
    /\ UNCHANGED <<videoDir, jsonDir, clock, tempZip, uploads, stable, created, lastDel>>

\* The loop head: the next name of the listing; one that ends in ".mp4"
\* enters the loop body, which starts with os.path.exists(video_path).
DeleteNext(p) ==
    /\ pc[p] = "del_next"
    /\ \E filename \in loc[p].todo :
        /\ loc' = [loc EXCEPT ![p].todo = @ \ {filename}, ![p].filename = filename]
        /\ pc' = [pc EXCEPT ![p] =
                     IF ~endswith(filename, MP4) THEN "del_next"
                     ELSE IF exists(videoDir, filename) THEN "del_rm_video"
                     ELSE "del_exists_json"]
    /\ resp' = NoResp
    /\ UNCHANGED <<videoDir, jsonDir, clock, tempZip, uploads, stable, created, lastDel>>

DeleteResponse(call, undisturbed) ==
    [op |-> "delete_all", status |-> 200, message |-> "All datasets deleted",
     call |-> call, stable |-> undisturbed]

DeleteFailure(p) ==
    /\ Finish(p, Error500("delete_all", "FileNotFoundError", loc[p]))
    /\ stable' = Settle(p)
    /\ UNCHANGED <<created, lastDel>>

\* os.remove(video_path); FileNotFoundError when the entry is gone.
DeleteRemoveVideo(p) ==
    /\ pc[p] = "del_rm_video"
    /\ IF exists(videoDir, loc[p].filename)
       THEN /\ videoDir' = RemoveFile(videoDir, loc[p].filename)
            /\ pc' = [pc EXCEPT ![p] = "del_exists_json"]
            /\ Removed(p, <<"videos", loc[p].filename>>)
            /\ resp' = NoResp
       ELSE /\ DeleteFailure(p)
            /\ UNCHANGED videoDir
    /\ UNCHANGED <<jsonDir, clock, tempZip, uploads>>

\* The data name taken from the whole video name, extension included.
DeleteJsonNameKeepsExtension(filename) == filename \o JSON

\* json_filename = f"{timestamp}.json" with timestamp the video name's root
DeleteJsonName(filename) == splitext(filename)[1] \o JSON

\* os.path.exists(json_path)
DeleteExistsJson(p) ==
    /\ pc[p] = "del_exists_json"
    /\ pc' = [pc EXCEPT ![p] =
                 IF exists(jsonDir, DeleteJsonName(loc[p].filename))
                 THEN "del_rm_json" ELSE "del_next"]
    /\ resp' = NoResp
    /\ UNCHANGED <<videoDir, jsonDir, clock, tempZip, uploads, loc, stable, created, lastDel>>

\* os.remove(json_path); FileNotFoundError when the entry is gone.
DeleteRemoveJson(p) ==
    /\ pc[p] = "del_rm_json"
    /\ LET json_filename == DeleteJsonName(loc[p].filename)
       IN  IF exists(jsonDir, json_filename)
           THEN /\ jsonDir' = RemoveFile(jsonDir, json_filename)
                /\ pc' = [pc EXCEPT ![p] = "del_next"]
                /\ Removed(p, <<"json_data", json_filename>>)
                /\ resp' = NoResp
           ELSE /\ DeleteFailure(p)
                /\ UNCHANGED jsonDir
    /\ UNCHANGED <<videoDir, clock, tempZip, uploads>>

\* The loop is over: 200.
DeleteEnd(p) ==
    /\ pc[p] = "del_next"
    /\ loc[p].todo = {}
    /\ Finish(p, DeleteResponse(loc[p], stable[p]))
    /\ lastDel' = IF stable[p] THEN [set |-> TRUE, dirs |-> Dirs] ELSE None
    /\ stable' = Settle(p)
    /\ UNCHANGED <<videoDir, jsonDir, clock, tempZip, uploads, created>>

\* ------------------------------------------------------------- download_dataset
\* The <timestamp> path parameters clients ask for: the keys the clock can
\* produce, bare and followed by "-v" (the root of a stored video name).
Timestamps ==
    UNION {{strftime(TimeAt(t)), strftime(TimeAt(t)) \o <<"-", "v">>} : t \in 0..MaxTick}

\* NotFound with a message that does not name the file.
NotFoundUnnamed(kind, filename, call) ==
    [op |-> "download", status |-> 404,
     message |-> <<"Dataset ">> \o call.timestamp \o <<" not found">>, call |-> call]

NotFound(kind, filename, call) ==
    [op |-> "download", status |-> 404,
     message |-> <<kind, " file ">> \o filename \o <<" not found">>, call |-> call]

\* os.path.exists(video_path)
DownloadBegin(p) ==
    \E timestamp \in Timestamps :
        /\ pc[p] = "idle"
        /\ IF ~exists(videoDir, timestamp \o MP4)
           THEN Finish(p, NotFound("Video", timestamp \o MP4,
                                   [op |-> "download", timestamp |-> timestamp,
                                    before |-> Dirs]))
           ELSE Begin(p, "dl_exists_json",
                      [op |-> "download", timestamp |-> timestamp, before |-> Dirs])
        /\ UNCHANGED <<videoDir, jsonDir, clock, tempZip, uploads, stable, created, lastDel>>

\* os.path.exists(json_path)
DownloadExistsJson(p) ==
    /\ pc[p] = "dl_exists_json"
    /\ IF ~exists(jsonDir, loc[p].timestamp \o JSON)
       THEN /\ Finish(p, NotFound("JSON", loc[p].timestamp \o JSON, loc[p]))
            /\ stable' = Settle(p)
       ELSE /\ pc' = [pc EXCEPT ![p] = "dl_zip"]
            /\ resp' = NoResp
            /\ UNCHANGED <<loc, stable>>
    /\ UNCHANGED <<videoDir, jsonDir, clock, tempZip, uploads, created, lastDel>>

\* An archive member: zip_file.write(path, arcname=...)
Member(arcname, bytes) == [arcname |-> arcname, bytes |-> bytes]

\* The two zip_file.write calls and send_file; a source file that is gone
\* raises FileNotFoundError, which the handler turns into a 500.
DownloadResponse(call, vdir, jdir) ==
    LET timestamp == call.timestamp
    IN  IF ~exists(vdir, timestamp \o MP4) \/ ~exists(jdir, timestamp \o JSON)
        THEN Error500("download", "FileNotFoundError", call)
        ELSE [op |-> "download", status |-> 200,
              archive |-> <<Member(timestamp \o MP4, vdir[timestamp \o MP4]),
                            Member(timestamp \o JSON, jdir[timestamp \o JSON])>>,
              download_name |-> timestamp \o <<"_dataset.zip">>, call |-> call]

DownloadZip(p) ==
    /\ pc[p] = "dl_zip"
    /\ Finish(p, DownloadResponse(loc[p], videoDir, jsonDir))
    /\ stable' = Settle(p)
    /\ UNCHANGED <<videoDir, jsonDir, clock, tempZip, uploads, created, lastDel>>

\* ------------------------------------------------------------- download_all_datasets
\* timestamp = "-".join(video_filename.split("-")[:2])
AllTimestamp(video_filename) == join(<<"-">>, prefix(split(video_filename, "-"), 2))

\* [f for f in os.listdir(JSON_FOLDER) if timestamp in f and f.endswith(".json")]
MatchingJsonFiles(dir, timestamp) ==
    {f \in DOMAIN dir : contains(f, timestamp) /\ endswith(f, JSON)}

\* for video_filename in os.listdir(VIDEO_FOLDER): the directory is read once.
DownloadAllBegin(p) ==
    /\ Begin(p, "all_next",
             [op |-> "download_all", todo |-> DOMAIN videoDir,
              archive |-> <<>>, missing_files |-> <<>>])
    /\ UNCHANGED <<videoDir, jsonDir, clock, tempZip, uploads, stable, created, lastDel>>

\* One turn of the loop for a name that does not end in ".mp4".
DownloadAllSkip(p) ==
    /\ pc[p] = "all_next"
    /\ \E video_filename \in loc[p].todo :
        /\ ~endswith(video_filename, MP4)
        /\ loc' = [loc EXCEPT ![p].todo = @ \ {video_filename}]
    /\ resp' = NoResp
    /\ UNCHANGED <<videoDir, jsonDir, clock, tempZip, uploads, pc, stable, created, lastDel>>

\* One turn of the loop for a video with no matching data file.
DownloadAllMissing(p) ==
    /\ pc[p] = "all_next"
    /\ \E video_filename \in loc[p].todo :
        LET timestamp == AllTimestamp(video_filename)
        IN  /\ endswith(video_filename, MP4)
            /\ MatchingJsonFiles(jsonDir, timestamp) = {}
            /\ loc' = [loc EXCEPT ![p].todo = @ \ {video_filename},
                                  ![p].missing_files =
                                      Append(@, timestamp \o <<"/">> \o <<"Missing JSON">>)]
    /\ resp' = NoResp
    /\ UNCHANGED <<videoDir, jsonDir, clock, tempZip, uploads, pc, stable, created, lastDel>>

\* One turn of the loop for a video with matching data files: the first of
\* them in the listing's order, which is any of them, is written next to the
\* video under the folder named timestamp.  A source file that is gone raises
\* FileNotFoundError, which the handler turns into a 500.
DownloadAllPair(p) ==
    /\ pc[p] = "all_next"
    /\ \E video_filename \in loc[p].todo :
        LET timestamp == AllTimestamp(video_filename)
        IN  /\ endswith(video_filename, MP4)
            /\ \E json_filename \in MatchingJsonFiles(jsonDir, timestamp) :
                IF exists(videoDir, video_filename)
                THEN /\ loc' = [loc EXCEPT
                            ![p].todo = @ \ {video_filename},
                            ![p].archive = @ \o
                                <<Member(timestamp \o <<"/">> \o video_filename,
                                         videoDir[video_filename]),
                                  Member(timestamp \o <<"/">> \o json_filename,
                                         jsonDir[json_filename])>>]
                     /\ resp' = NoResp
                     /\ UNCHANGED <<pc, stable>>
                ELSE /\ Finish(p, Error500("download_all", "FileNotFoundError", loc[p]))
                     /\ stable' = Settle(p)
    /\ UNCHANGED <<videoDir, jsonDir, clock, tempZip, uploads, created, lastDel>>

DownloadAllResponse(call, undisturbed) ==
    [op |-> "download_all", status |-> 200, archive |-> call.archive,
     missing_files |-> call.missing_files, download_name |-> "all_datasets.zip",
     stable |-> undisturbed]

\* The loop is over: send_file.
DownloadAllEnd(p) ==
    /\ pc[p] = "all_next"
    /\ loc[p].todo = {}
    /\ Finish(p, DownloadAllResponse(loc[p], stable[p]))
    /\ stable' = Settle(p)
    /\ UNCHANGED <<videoDir, jsonDir, clock, tempZip, uploads, created, lastDel>>

\* ------------------------------------------------------------- download_all
\* The route /all: every video under "videos/", then every data file under
\* "json_data/", zipped in memory.  Each directory is read once, when its
\* loop starts.
SeparatedBegin(p) ==
    LET videos == {n \in DOMAIN videoDir : endswith(n, MP4)}
    IN  /\ Begin(p, "sep_video",
                 [op |-> "all", videos |-> videos, jsons |-> {}, todo |-> videos,
                  archive |-> <<>>])
        /\ UNCHANGED <<videoDir, jsonDir, clock, tempZip, uploads, stable, created, lastDel>>

\* zip_file.write(path, arcname) of one listed name; a source file that is
\* gone raises FileNotFoundError, which the handler turns into a 500.
SeparatedWrite(p, step, dir, folder) ==
    /\ pc[p] = step
    /\ \E filename \in loc[p].todo :
        IF exists(dir, filename)
        THEN /\ loc' = [loc EXCEPT
                    ![p].todo = @ \ {filename},
                    ![p].archive = Append(@, Member(<<folder, "/">> \o filename,
                                                    dir[filename]))]
             /\ resp' = NoResp
             /\ UNCHANGED <<pc, stable>>
        ELSE /\ Finish(p, Error500("all", "FileNotFoundError", loc[p]))
             /\ stable' = Settle(p)
    /\ UNCHANGED <<videoDir, jsonDir, clock, tempZip, uploads, created, lastDel>>

SeparatedVideo(p) == SeparatedWrite(p, "sep_video", videoDir, "videos")

\* The first loop is over: os.listdir(JSON_FOLDER).
SeparatedListJson(p) ==
    LET jsons == {n \in DOMAIN jsonDir : endswith(n, JSON)}
    IN  /\ pc[p] = "sep_video"
        /\ loc[p].todo = {}
        /\ pc' = [pc EXCEPT ![p] = "sep_json"]
        /\ loc' = [loc EXCEPT ![p].jsons = jsons, ![p].todo = jsons]
        /\ resp' = NoResp
        /\ UNCHANGED <<videoDir, jsonDir, clock, tempZip, uploads, stable, created, lastDel>>

SeparatedJson(p) == SeparatedWrite(p, "sep_json", jsonDir, "json_data")

\* The second loop is over: send_file.
SeparatedEnd(p) ==
    /\ pc[p] = "sep_json"
    /\ loc[p].todo = {}
    /\ Finish(p, [op |-> "all", status |-> 200, archive |-> loc[p].archive,
                  videos |-> loc[p].videos, jsons |-> loc[p].jsons,
                  download_name |-> "all_datasets_separated.zip"])
    /\ stable' = Settle(p)
    /\ UNCHANGED <<videoDir, jsonDir, clock, tempZip, uploads, created, lastDel>>

\* ------------------------------------------------------------- download_all_stream
\* The file temp.zip is a sequence of blocks: one for each archive member and
\* one for the central directory that ZipFile.close appends.  A block records
\* the worker whose request wrote it.
Block(p, part) == [by |-> p, part |-> part]
\* A stretch of the file no one has written: zero bytes.
Hole == [by |-> "", part |-> <<>>]
EndRecord == <<"central directory">>

\* A write of one block at a position of the file, through a descriptor of
\* its own: the file grows, with a hole, when the position is past its end.
WriteAt(file, pos, block) ==
    LET n == IF pos > Len(file.blocks) THEN pos ELSE Len(file.blocks)
    IN  [exists |-> TRUE,
         blocks |-> [i \in 1..n |->
                        IF i = pos THEN block
                        ELSE IF i <= Len(file.blocks) THEN file.blocks[i]
                        ELSE Hole]]

\* The generator starts: zipfile.ZipFile("temp.zip", "w") creates the file or
\* truncates it, and os.listdir(VIDEO_FOLDER) is read.
StreamOpen(p) ==
    LET videos == {n \in DOMAIN videoDir : endswith(n, MP4)}
    IN  /\ Begin(p, "st_write",
                 [op |-> "all_stream", videos |-> videos, todo |-> videos,
                  written |-> 0, read |-> 0, sent |-> <<>>])
        /\ tempZip' = [exists |-> TRUE, blocks |-> <<>>]
        /\ UNCHANGED <<videoDir, jsonDir, clock, uploads, stable, created, lastDel>>

\* The generator raised before it yielded a chunk: no header has been sent
\* yet, and the server answers 500.
StreamError == [op |-> "all_stream", status |-> 500, message |-> "Internal Server Error"]

\* zip_file.write(video_path, arcname) of one listed name, at the position
\* this ZipFile has reached.  A source file that is gone raises
\* FileNotFoundError: the with statement closes the ZipFile, which appends
\* its central directory, and the exception leaves the generator.
StreamWrite(p) ==
    /\ pc[p] = "st_write"
    /\ \E filename \in loc[p].todo :
        IF exists(videoDir, filename)
        THEN /\ tempZip' = WriteAt(tempZip, loc[p].written + 1,
                                   Block(p, <<"videos", "/">> \o filename))
             /\ loc' = [loc EXCEPT ![p].todo = @ \ {filename},
                                   ![p].written = @ + 1]
             /\ resp' = NoResp
             /\ UNCHANGED <<pc, stable>>
        ELSE /\ tempZip' = WriteAt(tempZip, loc[p].written + 1, Block(p, EndRecord))
             /\ Finish(p, StreamError)
             /\ stable' = Settle(p)
    /\ UNCHANGED <<videoDir, jsonDir, clock, uploads, created, lastDel>>

\* The loop is over: the with statement closes the ZipFile, and
\* open("temp.zip", "rb") follows.
StreamClose(p) ==
    /\ pc[p] = "st_write"
    /\ loc[p].todo = {}
    /\ tempZip' = WriteAt(tempZip, loc[p].written + 1, Block(p, EndRecord))
    /\ pc' = [pc EXCEPT ![p] = "st_read"]
    /\ resp' = NoResp
    /\ UNCHANGED <<videoDir, jsonDir, clock, uploads, loc, stable, created, lastDel>>

\* chunk = f.read(8192); yield chunk: the next block of the file goes out.
StreamRead(p) ==
    /\ pc[p] = "st_read"
    /\ loc[p].read < Len(tempZip.blocks)
    /\ loc' = [loc EXCEPT ![p].read = @ + 1,
                          ![p].sent = Append(@, tempZip.blocks[loc[p].read + 1])]
    /\ resp' = NoResp
    /\ UNCHANGED <<videoDir, jsonDir, clock, tempZip, uploads, pc, stable, created, lastDel>>

\* if not chunk: break.  The generator returns, the response is complete;
\* temp.zip stays where it is.
StreamEnd(p) ==
    /\ pc[p] = "st_read"
    /\ loc[p].read >= Len(tempZip.blocks)
    /\ Finish(p, [op |-> "all_stream", status |-> 200, by |-> p,
                  videos |-> loc[p].videos, body |-> loc[p].sent])
    /\ stable' = Settle(p)
    /\ UNCHANGED <<videoDir, jsonDir, clock, tempZip, uploads, created, lastDel>>

\* ------------------------------------------------------------- specifications
Upload(p, R) ==
    \/ UploadInvalid(p, R)
    \/ UploadAccept(p, R)
    \/ UploadSaveVideo(p)
    \/ UploadSaveVideoFails(p)
    \/ UploadSaveJson(p)
    \/ UploadSaveJsonFails(p)
    \/ UploadReadJson(p)

DeleteAll(p) ==
    \/ DeleteBegin(p)
    \/ DeleteNext(p)
    \/ DeleteRemoveVideo(p)
    \/ DeleteExistsJson(p)
    \/ DeleteRemoveJson(p)
    \/ DeleteEnd(p)

Download(p) ==
    \/ DownloadBegin(p)
    \/ DownloadExistsJson(p)
    \/ DownloadZip(p)

DownloadAll(p) ==
    \/ DownloadAllBegin(p)
    \/ DownloadAllSkip(p)
    \/ DownloadAllMissing(p)
    \/ DownloadAllPair(p)
    \/ DownloadAllEnd(p)

Separated(p) ==
    \/ SeparatedBegin(p)
    \/ SeparatedVideo(p)
    \/ SeparatedListJson(p)
    \/ SeparatedJson(p)
    \/ SeparatedEnd(p)

Stream(p) ==
    \/ StreamOpen(p)
    \/ StreamWrite(p)
    \/ StreamClose(p)
    \/ StreamRead(p)
    \/ StreamEnd(p)

\* One worker: requests are served one after the other.
Next ==
    \/ Tick
    \/ Upload("w1", Requests)
    \/ ListDatasets("w1")
    \/ DeleteAll("w1")
    \/ Download("w1")
    \/ DownloadAll("w1")

Spec == Init /\ [][Next]_vars

\* Two workers: uploads and delete_all run concurrently.
NextConc ==
    \/ Tick
    \/ \E p \in Procs :
        \/ Upload(p, GoodRequests \cup BadRequests)
        \/ DeleteAll(p)

SpecConc == Init /\ [][NextConc]_vars

\* One worker, uploads alone, over every kind of data document.
NextDocs ==
    \/ Tick
    \/ Upload("w1", DocRequests \cup BadRequests)

SpecDocs == Init /\ [][NextDocs]_vars

\* One worker uploads while the other runs delete_all.
NextRace ==
    \/ Tick
    \/ Upload("w1", GoodRequests \cup BadRequests)
    \/ DeleteAll("w2")

SpecRace == Init /\ [][NextRace]_vars

\* Two workers: one uploads and streams, the other streams.
NextStream ==
    \/ Tick
    \/ Upload("w1", BundleRequests)
    \/ Stream("w1")
    \/ Stream("w2")

SpecStream == Init /\ [][NextStream]_vars

\* Two workers within one second of the clock: one uploads and serves every
\* bundling route, the other deletes and serves the streaming route.
NextBundle ==
    \/ Upload("w1", BundleRequests)
    \/ Download("w1")
    \/ DownloadAll("w1")
    \/ Separated("w1")
    \/ Stream("w1")
    \/ Stream("w2")
    \/ DeleteAll("w2")

SpecBundle == Init /\ [][NextBundle]_vars

\* One worker, uploads alone, under names that hold separators.
NextNames ==
    \/ Tick
    \/ Upload("w1", TraversalRequests \cup BadRequests)

SpecNames == Init /\ [][NextNames]_vars

\* sanitize_filename alone, over every name of at most MaxNameLen characters
\* of the alphabet: the initial state holds the name, the step applies the
\* function to it.
MaxNameLen == 3
Alphabet == InvalidChars \cup {"a", ".", "_", "-"}
Filenames == UNION {[1..n -> Alphabet] : n \in 0..MaxNameLen}

InitSanitize ==
    /\ videoDir = EmptyDir
    /\ jsonDir = EmptyDir
    /\ clock = 0
    /\ uploads = 0
    /\ pc = [p \in Procs |-> "idle"]
    /\ loc = [p \in Procs |-> NoLoc]
    /\ \E filename \in Filenames :
           resp = [op |-> "filename", status |-> 0, filename |-> filename]
    /\ stable = [p \in Procs |-> TRUE]
    /\ created = {}
    /\ lastDel = None
    /\ tempZip = NoFile

Sanitize ==
    /\ resp.op = "filename"
    /\ resp' = [op |-> "sanitize", status |-> 0, filename |-> resp.filename,
                result |-> sanitize_filename(resp.filename)]
    /\ UNCHANGED <<videoDir, jsonDir, clock, tempZip, uploads, pc, loc, stable, created, lastDel>>

SpecSanitize == InitSanitize /\ [][Sanitize]_vars

\* ------------------------------------------------------------- properties
\* The correlation key of a stored name: its first 19 characters, the length
\* of YYYY-MM-DD_HH-MM-SS.
KeyLen == Len(strftime(Epoch))
KeyOf(name) == SubSeq(name, 1, KeyLen)
Carries(name, key) == Len(name) >= KeyLen /\ KeyOf(name) = key
StoresBytesOf(dir, id) == \E n \in DOMAIN dir : dir[n].id = id
InSeq(x, seq) == \E i \in 1..Len(seq) : seq[i] = x

\* C1: two uploads that ran concurrently in the same clock second under the
\* same original file names and were both answered 200 are both stored: the
\* video bytes and the data bytes of each are still held by an entry.
C1_ConcurrentCreatesBothStored ==
    (resp.op = "upload" /\ resp.status = 200) =>
        \A c \in created :
            (/\ c.id \in resp.call.with
             /\ c.timestamp = resp.call.timestamp
             /\ c.video_filename = resp.call.video_filename
             /\ c.json_filename = resp.call.json_filename)
            => /\ StoresBytesOf(videoDir, c.id) /\ StoresBytesOf(videoDir, resp.call.id)
               /\ StoresBytesOf(jsonDir, c.id) /\ StoresBytesOf(jsonDir, resp.call.id)

\* C2: an upload answered 200 leaves every entry that existed when it began
\* with the content it had, and adds exactly one entry to each directory.
C2_CreateNeverOverwrites ==
    (resp.op = "upload" /\ resp.status = 200) =>
        LET before == resp.call.before
        IN  /\ \A n \in DOMAIN before.video :
                  exists(videoDir, n) /\ videoDir[n] = before.video[n]
            /\ \A n \in DOMAIN before.json :
                  exists(jsonDir, n) /\ jsonDir[n] = before.json[n]
            /\ Cardinality(DOMAIN videoDir) = Cardinality(DOMAIN before.video) + 1
            /\ Cardinality(DOMAIN jsonDir) = Cardinality(DOMAIN before.json) + 1

\* The archive of a download_all response holds the pair of upload c under
\* the folder named by c's key.
BundledUnderKey(archive, c) ==
    /\ \E i \in 1..Len(archive) :
          archive[i].arcname = c.timestamp \o <<"/">> \o c.video_filename
    /\ \E i \in 1..Len(archive) :
          archive[i].arcname = c.timestamp \o <<"/">> \o c.json_filename

\* C3: while no entry has been removed since an upload was answered 200,
\* list returns the upload's correlation key, and download_all bundles the
\* upload's pair under that key and does not report the key as missing.
C3_CreatedIsListedAndComplete ==
    \A c \in created :
        /\ resp.op = "list" => InSeq(c.timestamp, resp.body)
        /\ (resp.op = "download_all" /\ resp.status = 200) =>
              /\ BundledUnderKey(resp.archive, c)
              /\ \A i \in 1..Len(resp.missing_files) :
                    ~contains(resp.missing_files[i], c.timestamp)

\* The video entries that end in ".mp4" and have no data entry of their key.
VideosWithoutData ==
    {n \in DOMAIN videoDir :
        endswith(n, MP4) /\ \A f \in DOMAIN jsonDir : ~Carries(f, KeyOf(n))}

\* C4: download_all records the key K of every video entry K-name.mp4 that
\* has no data entry of key K in the incomplete set, and writes no member
\* for that video.
C4_VideoWithoutDataIsIncomplete ==
    (resp.op = "download_all" /\ resp.status = 200) =>
        \A n \in VideosWithoutData :
            /\ \E i \in 1..Len(resp.missing_files) :
                  resp.missing_files[i] \in
                      {KeyOf(n), KeyOf(n) \o <<"/">> \o <<"Missing JSON">>}
            /\ \A i \in 1..Len(resp.archive) :
                  ~endswith(resp.archive[i].arcname, <<"/">> \o n)

\* The conditions under which a create request fails validation.
FailsValidation(r) ==
    \/ ~r.video.present
    \/ ~r.json.present
    \/ r.video.filename = <<>>
    \/ r.json.filename = <<>>
    \/ r.video.mimetype # "video/mp4"
    \/ r.json.mimetype # "application/json"

\* C5: an upload request that fails validation is answered 400 and reaches no
\* filesystem call: it is never past validation, it is never answered
\* otherwise, and the 400 leaves both directories as they were.
C5_InvalidCreateRejected ==
    /\ \A p \in Procs : loc[p].op = "upload" => ~FailsValidation(loc[p].input)
    /\ (resp.op = "upload" /\ resp.status # 400) => ~FailsValidation(resp.call.input)
    /\ (resp.op = "upload" /\ resp.status = 400) =>
          /\ FailsValidation(resp.input)
          /\ resp.before = Dirs

\* C5 witness: a video/quicktime upload is answered 400 while entries exist.
C5_Witness ==
    /\ resp.op = "upload" /\ resp.status = 400
    /\ resp.input.video.present /\ resp.input.video.mimetype = "video/quicktime"
    /\ DOMAIN videoDir # {} /\ DOMAIN jsonDir # {}

\* C6: a delete_all that begins with the directories as an undisturbed
\* delete_all left them is answered 200 "All datasets deleted", removes
\* nothing and leaves both directories as they were; so is a delete_all over
\* empty directories.
C6_DeleteAllIdempotent ==
    resp.op = "delete_all" =>
        /\ resp.call.previous.set =>
              /\ resp.status = 200
              /\ resp.message = "All datasets deleted"
              /\ resp.call.removed = {}
              /\ Dirs = resp.call.previous.dirs
        /\ (resp.call.removed = {} /\ DOMAIN videoDir = {} /\ DOMAIN jsonDir = {}) =>
              /\ resp.status = 200
              /\ resp.message = "All datasets deleted"

\* C6 witness: the second of two delete_all in a row returns while a data
\* entry that neither removed is still there.
C6_Witness ==
    /\ resp.op = "delete_all" /\ resp.status = 200
    /\ resp.call.previous.set
    /\ DOMAIN jsonDir # {}

\* A line of missing_files reports key: the text before its "/" is a prefix
\* of the key.
Reports(line, key) ==
    LET k == split(line, "/")[1]
    IN  k # <<>> /\ Len(k) <= Len(key) /\ SubSeq(key, 1, Len(k)) = k

\* The data entries that end in ".json" and have no video entry of their key.
DataWithoutVideo ==
    {f \in DOMAIN jsonDir :
        endswith(f, JSON) /\ \A n \in DOMAIN videoDir : ~Carries(n, KeyOf(f))}

\* C7: download_all reports every incomplete dataset in missing_files: each
\* video entry without a data entry of its key, and each data entry without a
\* video entry of its key.
C7_IncompleteReportedBothWays ==
    (resp.op = "download_all" /\ resp.status = 200) =>
        /\ \A n \in VideosWithoutData :
              \E i \in 1..Len(resp.missing_files) :
                  Reports(resp.missing_files[i], KeyOf(n))
        /\ \A f \in DataWithoutVideo :
              \E i \in 1..Len(resp.missing_files) :
                  Reports(resp.missing_files[i], KeyOf(f))

\* C8: in the archive of download_all, each video member is under the folder
\* named by the video's full correlation key, and the data member written
\* with it is under the same folder and carries the same key.
C8_PairUnderKeyFolderSameKey ==
    (resp.op = "download_all" /\ resp.status = 200) =>
        \A i \in 1..Len(resp.archive) :
            i % 2 = 1 =>
                LET video == split(resp.archive[i].arcname, "/")
                    data == split(resp.archive[i + 1].arcname, "/")
                IN  /\ video[1] = KeyOf(video[2])
                    /\ data[1] = video[1]
                    /\ Carries(data[2], KeyOf(video[2]))

\* Both writes of the upload that was just answered succeeded and are in
\* place.
WroteBoth(call) ==
    /\ "raised_by" \notin DOMAIN resp
    /\ exists(videoDir, call.video_filename)
    /\ videoDir[call.video_filename] = [id |-> call.id]
    /\ exists(jsonDir, call.json_filename)
    /\ jsonDir[call.json_filename] = [id |-> call.id, doc |-> call.input.doc]

\* C9: an upload whose two writes succeeded is answered 200 whenever its data
\* file is valid JSON, with an empty array for each field the document does
\* not hold, and is answered with an error only when the file is not JSON.
C9_ValidJsonNeverFatal ==
    (resp.op = "upload" /\ resp.status # 400 /\ WroteBoth(resp.call)) =>
        LET doc == resp.call.input.doc
        IN  IF doc.kind = "invalid" THEN resp.status # 200
            ELSE /\ resp.status = 200
                 /\ \A k \in {"gyroscopeData", "accelerometerData"} :
                       (doc.kind # "object" \/ k \notin DOMAIN doc.members)
                           => resp.body[k] = <<>>

\* C10: download_dataset answers with an archive only when both entries
\* timestamp.mp4 and timestamp.json exist; when the video is missing it
\* answers 404 naming the video file, when only the data file is missing 404
\* naming the data file; it leaves both directories as they were.
C10_DownloadSingle ==
    resp.op = "download" =>
        LET video_filename == resp.call.timestamp \o MP4
            json_filename == resp.call.timestamp \o JSON
        IN  /\ resp.call.before = Dirs
            /\ resp.status = 200 =>
                  exists(videoDir, video_filename) /\ exists(jsonDir, json_filename)
            /\ ~exists(videoDir, video_filename) =>
                  /\ resp.status = 404
                  /\ contains(resp.message, video_filename)
                  /\ ~contains(resp.message, json_filename)
            /\ (exists(videoDir, video_filename) /\ ~exists(jsonDir, json_filename)) =>
                  /\ resp.status = 404
                  /\ contains(resp.message, json_filename)
                  /\ ~contains(resp.message, video_filename)

\* C10 witness: the video of the asked name exists, its data file does not,
\* and the answer is a 404.
C10_Witness ==
    /\ resp.op = "download" /\ resp.status = 404
    /\ exists(videoDir, resp.call.timestamp \o MP4)
    /\ ~exists(jsonDir, resp.call.timestamp \o JSON)

\* The characters no stored name may hold: < > : " / \ | ? * and the control
\* characters.
Reserved == {"<", ">", ":", "\"", "/", "\\", "|", "?", "*", "\t", "\n", "\r"}

\* C12: the sanitized form of a name holds no reserved character, is as long
\* as the name, and is left unchanged by a second sanitization.
C12_SanitizeCleanSameLengthIdempotent ==
    resp.op = "sanitize" =>
        /\ \A i \in 1..Len(resp.result) : resp.result[i] \notin Reserved
        /\ Len(resp.result) = Len(resp.filename)
        /\ sanitize_filename(resp.result) = resp.result

\* A name made of reserved characters alone has been sanitized.
C12_Witness ==
    /\ resp.op = "sanitize"
    /\ resp.filename = <<"/", "\\", "\t">>
    /\ resp.result = <<"_", "_", "_">>

\* C13: the video of an upload answered 200 is stored under the name
\* {key}-{sanitized stem}.mp4, which ends in the literal ".mp4", so that the
\* suffix test of list_datasets, download_all_datasets and delete_all selects it.
C13_StoredVideoEndsInMp4 ==
    (resp.op = "upload" /\ resp.status = 200) =>
        LET call == resp.call
            stem == splitext(sanitize_filename(call.input.video.filename))[1]
        IN  /\ call.video_filename = call.timestamp \o <<"-">> \o stem \o MP4
            /\ endswith(call.video_filename, MP4)
            /\ \A listing \in listdir(videoDir) :
                   InSeq(splitext(call.video_filename)[1], ListBody(listing))

\* An upload that passed validation and wrote its video was answered 500
\* because its data write failed.
DataWriteFailed ==
    /\ resp.op = "upload" /\ resp.status = 500
    /\ "raised_by" \in DOMAIN resp /\ resp.raised_by = "json_data_file.save"

\* C14, as stated: when the video write succeeds and the data write fails, the
\* answer is 500, the video written by the call stays and the data directory
\* has gained no entry.
C14_FailedDataWriteAddsNoEntry ==
    DataWriteFailed =>
        /\ exists(videoDir, resp.call.video_filename)
        /\ videoDir[resp.call.video_filename] = [id |-> resp.call.id]
        /\ DOMAIN jsonDir = DOMAIN resp.call.before.json

\* C14, amended: when the video write succeeds and the data write fails, the
\* answer is 500, the video written by the call stays, and the data directory
\* is as it was before the call or holds, under the call's data name, a
\* truncated entry; the data of the call is not stored and the handler has
\* returned without a second attempt.
C14_FailedDataWriteKeepsVideo ==
    DataWriteFailed =>
        LET call == resp.call
        IN  /\ exists(videoDir, call.video_filename)
            /\ videoDir[call.video_filename] = [id |-> call.id]
            /\ \/ jsonDir = call.before.json
               \/ jsonDir = WriteFile(call.before.json, call.json_filename,
                                      Truncated(call.id))
            /\ \A n \in DOMAIN jsonDir :
                   jsonDir[n] # [id |-> call.id, doc |-> call.input.doc]
            /\ pc["w1"] = "idle"

\* The data write of an upload failed after its video was written, and the
\* video is the only entry of the call.
C14_Witness ==
    /\ DataWriteFailed
    /\ exists(videoDir, resp.call.video_filename)
    /\ ~exists(jsonDir, resp.call.json_filename)

\* The directory without the given entries.
Without(dir, names) == [n \in DOMAIN dir \ names |-> dir[n]]

\* C15: a delete_all answered 200 that ran alone has removed exactly the video
\* entries ending in ".mp4" and, for each of them with stem S, the data entry
\* S.json; every other entry is as it was when the call began.
C15_DeleteAllRemovesExactlyPairs ==
    (resp.op = "delete_all" /\ resp.status = 200 /\ resp.stable) =>
        LET before == resp.call.before
            mp4s == {n \in DOMAIN before.video : endswith(n, MP4)}
            datas == {SubSeq(n, 1, Len(n) - Len(MP4)) \o JSON : n \in mp4s}
        IN  /\ videoDir = Without(before.video, mp4s)
            /\ jsonDir = Without(before.json, datas)

\* A delete_all answered 200 found a video ending in ".mp4" with its S.json,
\* and has left a video entry and a data entry behind.
C15_Witness ==
    /\ resp.op = "delete_all" /\ resp.status = 200 /\ resp.stable
    /\ \E n \in DOMAIN resp.call.before.video :
           /\ endswith(n, MP4)
           /\ exists(resp.call.before.json, SubSeq(n, 1, Len(n) - Len(MP4)) \o JSON)
    /\ videoDir # EmptyDir
    /\ jsonDir # EmptyDir

\* os.path.normpath, as the sequence of the path's components: empty and "."
\* components are dropped, ".." leaves the directory reached so far.
RECURSIVE Resolve(_, _)
Resolve(parts, reached) ==
    IF parts = <<>> THEN reached
    ELSE LET part == Head(parts)
         IN  Resolve(Tail(parts),
                     IF part = <<>> \/ part = <<".">> THEN reached
                     ELSE IF part = <<".", ".">>
                          THEN SubSeq(reached, 1, Len(reached) - 1)
                     ELSE Append(reached, part))
Components(path) == Resolve(split(path, "/"), <<>>)
HasSeparator(name) == \E i \in 1..Len(name) : name[i] \in {"/", "\\"}

\* C17: both paths an upload writes to are direct children of the video
\* directory and of the data directory, named by the stored names, and the
\* stored names hold neither "/" nor "\".
C17_CreateWritesInsideDirectories ==
    \A p \in Procs :
        loc[p].op = "upload" =>
            /\ ~HasSeparator(loc[p].video_filename)
            /\ ~HasSeparator(loc[p].json_filename)
            /\ Components(loc[p].video_path)
                   = Append(Components(VIDEO_FOLDER), loc[p].video_filename)
            /\ Components(loc[p].json_path)
                   = Append(Components(JSON_FOLDER), loc[p].json_filename)

\* An upload whose video name climbs two directories up has written its video.
C17_Witness ==
    /\ loc["w1"].op = "upload" /\ pc["w1"] = "save_json"
    /\ loc["w1"].input.video.filename = <<"a", "/", ".", ".", "/", ".", ".", "/", "v">>
    /\ exists(videoDir, loc["w1"].video_filename)

\* C18: an upload that passed validation, wrote its video and its data, the
\* data being a JSON object, is answered 200 whatever a delete_all running at
\* the same time does.
C18_CreateSucceedsDespiteDeleteAll ==
    (/\ resp.op = "upload" /\ resp.status # 400
     /\ "raised_by" \notin DOMAIN resp
     /\ resp.call.input.doc.kind = "object")
    => resp.status = 200

\* Every entry of the two directories was stored by an upload answered 200.
OnlyCreatedEntries ==
    /\ \A n \in DOMAIN videoDir : \E c \in created : c.video_filename = n
    /\ \A n \in DOMAIN jsonDir : \E c \in created : c.json_filename = n

\* C19: the members of an archive built by download_all_datasets, over
\* directories that hold the entries of successful uploads alone, have
\* pairwise distinct paths, so that no data file is bundled with two videos.
C19_ArchivePathsDistinct ==
    (resp.op = "download_all" /\ resp.status = 200 /\ OnlyCreatedEntries) =>
        \A i, j \in 1..Len(resp.archive) :
            i # j => resp.archive[i].arcname # resp.archive[j].arcname

\* C11: once a streaming download has ended, with its last chunk or with an
\* error, and no other request is running, the file temp.zip is gone.
C11_StreamRemovesTempFile ==
    (resp.op = "all_stream" /\ \A p \in Procs : pc[p] = "idle") => ~tempZip.exists

\* The parts of a sequence of blocks, and the paths of a sequence of members.
Parts(blocks) == {blocks[i].part : i \in 1..Len(blocks)}
Paths(archive) == {archive[i].arcname : i \in 1..Len(archive)}
UnderFolder(folder, names) == {<<folder, "/">> \o n : n \in names}

\* The body of a streamed response is one whole archive of the scanned videos:
\* one block for each of them, then the central directory.
WholeStream(body, videos) ==
    /\ Len(body) = Cardinality(videos) + 1
    /\ Parts(SubSeq(body, 1, Len(body) - 1)) = UnderFolder("videos", videos)
    /\ body[Len(body)].part = EndRecord

\* C16: every bundling route answers with an error or with a whole archive:
\* download_dataset with the video and the data file of the key,
\* download_all_datasets with each bundled video followed by a data file in
\* the same folder, download_all with every scanned video and data file,
\* download_all_stream with every scanned video and the central directory.
C16_BundlesAllOrNothing ==
    /\ resp.op = "download" =>
           \/ resp.status \in {404, 500}
           \/ /\ resp.status = 200
              /\ Paths(resp.archive) =
                     {resp.call.timestamp \o MP4, resp.call.timestamp \o JSON}
    /\ resp.op = "download_all" =>
           \/ resp.status = 500
           \/ /\ resp.status = 200
              /\ Len(resp.archive) % 2 = 0
              /\ \A i \in 1..Len(resp.archive) :
                     i % 2 = 1 =>
                         /\ endswith(resp.archive[i].arcname, MP4)
                         /\ endswith(resp.archive[i + 1].arcname, JSON)
                         /\ split(resp.archive[i].arcname, "/")[1]
                                = split(resp.archive[i + 1].arcname, "/")[1]
    /\ resp.op = "all" =>
           \/ resp.status = 500
           \/ /\ resp.status = 200
              /\ Len(resp.archive) = Cardinality(resp.videos) + Cardinality(resp.jsons)
              /\ Paths(resp.archive) = UnderFolder("videos", resp.videos)
                                           \cup UnderFolder("json_data", resp.jsons)
    /\ resp.op = "all_stream" =>
           \/ resp.status = 500
           \/ /\ resp.status = 200
              /\ WholeStream(resp.body, resp.videos)

\* C20: the body of a streamed response answered 200 is one whole archive of
\* the videos its own request scanned, every block of it written by that
\* request.
C20_StreamsIndependent ==
    (resp.op = "all_stream" /\ resp.status = 200) =>
        /\ \A i \in 1..Len(resp.body) : resp.body[i].by = resp.by
        /\ WholeStream(resp.body, resp.videos)

====
